---- MODULE Spec2Model ----
(***************************************************************************)
(* vgz2vgm (src/tools/decompress.py): parse_size, the sequential run of    *)
(* main() over the discovered .vgz files, the flattened-name resolver and  *)
(* the guarded streaming decompressor decompress_vgz, over a small output  *)
(* tree; and two such invocations at once on one output tree.              *)
(*                                                                         *)
(* A path of the output tree is a record [dir, name, part]:                *)
(*   dir   the directory below output_dir, a sequence of directory names   *)
(*         (<<>> is output_dir itself);                                    *)
(*   name  the file name without ".vgm", split at its "-" separators, so   *)
(*         <<"foo">> is foo.vgm and <<"foo", 1>> is foo-1.vgm, whether the *)
(*         "-1" came from the input's own name or from the resolver;       *)
(*   part  TRUE for the name with ".part" appended.                        *)
(* A file's content is a sequence of bytes.                                *)
(***************************************************************************)
EXTENDS Integers, Sequences, FiniteSets, TLC

\* ------------------------------------------------------------------ bounds
\* Longest decompressed stream, in bytes.
MaxLen == 3
\* Largest byte ceiling tried for --max-size (None is always tried too).
MaxCeiling == 2
\* Longest list of discovered input files in the runs over several files.
MaxJobs == 3
\* Longest list of discovered input files in the runs that are repeated.
MaxJobsTwice == 2
\* The bytes f_in.read(65536) may return at once, scaled down.
ChunkSize == 2
\* Longest --max-size string among those tried character by character.
MaxStr == 3

\* ------------------------------------------------------------ value spaces
Byte == {0, 1}

\* max_size = None (parse_size of an absent --max-size): no ceiling.
None == -1

\* Content of the files already in the output tree before the first run.
Old == <<7>>

\* The .vgz files the input tree may hold: [dir, stem] is dir/stem.vgz.
\* foo.vgz and sub/foo.vgz share a basename at different depths; foo-1.vgz
\* bears the name the resolver gives the second foo.
InFiles ==
  { [dir |-> <<>>, stem |-> <<"foo">>],
    [dir |-> <<"sub">>, stem |-> <<"foo">>],
    [dir |-> <<>>, stem |-> <<"foo", 1>>] }

Final(d, n) == [dir |-> d, name |-> n, part |-> FALSE]

\* Paths that may hold a file before the first run: in the runs of one job,
\* its destination in either layout and a stale temporary file; in the runs
\* over several files, the two names the flattened jobs contend for and a
\* stale temporary file.
PrePathsJob ==
  { Final(<<>>, <<"foo">>), Final(<<"sub">>, <<"foo">>),
    [dir |-> <<>>, name |-> <<"foo">>, part |-> TRUE],
    [dir |-> <<"sub">>, name |-> <<"foo">>, part |-> TRUE] }

PrePathsRun ==
  { Final(<<>>, <<"foo">>), Final(<<>>, <<"foo", 1>>),
    [dir |-> <<>>, name |-> <<"foo">>, part |-> TRUE] }

\* In the runs that are repeated: one file that the first run did not write.
PrePathsTwice == { Final(<<>>, <<"foo">>) }

\* All non-empty chunks a read may return.
Chunks == UNION { [1..n -> Byte] : n \in 1..ChunkSize }

\* The streams an input file may decompress to, as the chunks read returns:
\* every split of every byte sequence of at most n bytes.
RECURSIVE AllStreams(_)
AllStreams(n) ==
  {<<>>} \cup UNION { { <<c>> \o t : t \in AllStreams(n - Len(c)) } :
                      c \in { d \in Chunks : Len(d) <= n } }

Streams == AllStreams(MaxLen)

\* In the runs over several files: the empty stream and a stream of one byte.
ShortStreams == { <<>>, << <<0>> >> }

\* In the runs that are repeated: a stream of one byte.
TwiceStreams == { << <<0>> >> }


IsPrefix(k, st) == Len(k) <= Len(st) /\ SubSeq(st, 1, Len(k)) = k

RECURSIVE Flatten(_)
Flatten(cs) == IF cs = <<>> THEN <<>> ELSE Head(cs) \o Flatten(Tail(cs))

\* Lists without repetition of at most n input files.
RECURSIVE Lists(_)
Lists(n) ==
  IF n = 0 THEN {<<>>}
  ELSE LET shorter == Lists(n - 1) IN
       shorter \cup UNION { { Append(l, f) : f \in InFiles \ { l[i] : i \in 1..Len(l) } } :
                             l \in { s \in shorter : Len(s) = n - 1 } }

\* -------------------------------------------------------------- parse_size
\* A string is a sequence of one-character strings.
Digits == <<"0", "1", "2", "3", "4", "5", "6", "7", "8", "9">>

\* \d
IsDigit(c) == \E n \in 1..10 : Digits[n] = c

DigitVal(c) == (CHOOSE n \in 1..10 : Digits[n] = c) - 1

\* \s, and the characters str.strip() removes
IsSpace(c) == c = " "

\* str.upper() on the letters of the unit group
Upper(c) ==
  CASE c = "k" -> "K" [] c = "m" -> "M" [] c = "g" -> "G"
    [] c = "t" -> "T" [] c = "p" -> "P" [] c = "b" -> "B" [] OTHER -> c

\* [kmgtp] under (?i)
IsUnitLetter(c) == Upper(c) \in {"K", "M", "G", "T", "P"}

\* s without the spaces at its head.
LStrip(s) ==
  IF \A i \in 1..Len(s) : IsSpace(s[i]) THEN <<>>
  ELSE SubSeq(s, CHOOSE i \in 1..Len(s) :
                   ~IsSpace(s[i]) /\ \A j \in 1..(i - 1) : IsSpace(s[j]),
              Len(s))

\* s without the spaces at its end.
RStrip(s) ==
  IF \A i \in 1..Len(s) : IsSpace(s[i]) THEN <<>>
  ELSE SubSeq(s, 1, CHOOSE i \in 1..Len(s) :
                      ~IsSpace(s[i]) /\ \A j \in (i + 1)..Len(s) : IsSpace(s[j]))

\* str.strip()
Strip(s) == RStrip(LStrip(s))

\* The length of the longest prefix of s made of digits.
DigitRun(s) ==
  CHOOSE n \in 0..Len(s) :
    /\ \A i \in 1..n : IsDigit(s[i])
    /\ n < Len(s) => ~IsDigit(s[n + 1])

Drop(s, n) == SubSeq(s, n + 1, Len(s))

\* re.fullmatch(r"(?i)\s*(\d+(?:\.\d+)?)\s*([kmgtp]?b?)?\s*", s): the character
\* classes of consecutive parts are disjoint, so the match, if any, is the
\* greedy one. whole and frac are the digits of group 1 before and after the
\* point, unit is group 2.
FullMatch(s) ==
  LET s1 == LStrip(s)
      nw == DigitRun(s1)
      s2 == Drop(s1, nw)
      point == s2 # <<>> /\ Head(s2) = "."
      nf == IF point THEN DigitRun(Tail(s2)) ELSE 0
      s3 == IF point THEN Drop(s2, nf + 1) ELSE s2
      s4 == LStrip(s3)
      nu == IF s4 # <<>> /\ IsUnitLetter(Head(s4)) THEN 1 ELSE 0
      s5 == Drop(s4, nu)
      nb == IF s5 # <<>> /\ Upper(Head(s5)) = "B" THEN 1 ELSE 0
      s6 == LStrip(Drop(s5, nb))
  IN [ ok |-> nw > 0 /\ (point => nf > 0) /\ s6 = <<>>,
       whole |-> SubSeq(s1, 1, nw),
       frac |-> IF point THEN SubSeq(s2, 2, nf + 1) ELSE <<>>,
       unit |-> SubSeq(s4, 1, nu + nb) ]

\* A Python int is a sequence of bits, lowest first, without high zeros.
Trim(b) ==
  SubSeq(b, 1, CHOOSE n \in 0..Len(b) :
                 /\ n > 0 => b[n] = 1
                 /\ \A i \in (n + 1)..Len(b) : b[i] = 0)

Zeros(n) == [i \in 1..n |-> 0]

\* b * 2^n for n >= 0, floor(b / 2^-n) for n < 0
Shift(b, n) ==
  IF b = <<>> THEN <<>>
  ELSE IF n >= 0 THEN Zeros(n) \o b
  ELSE SubSeq(b, 1 - n, Len(b))

\* b + 1: the lowest 0 becomes 1 and the 1s below it 0.
Inc(b) ==
  LET k == CHOOSE i \in 1..(Len(b) + 1) :
             /\ i <= Len(b) => b[i] = 0
             /\ \A j \in 1..(i - 1) : b[j] = 1
  IN [i \in 1..(IF k > Len(b) THEN k ELSE Len(b)) |->
        IF i < k THEN 0 ELSE IF i = k THEN 1 ELSE b[i]]

\* The arithmetic of float() is done on limbs: a number as its digits in base
\* 1024, lowest first.
Limb == 1024

\* 10 * x + c, for the limbs of x from the i-th up and the carry c.
RECURSIVE MulAdd(_, _, _)
MulAdd(x, i, c) ==
  IF i > Len(x) THEN (IF c = 0 THEN <<>> ELSE <<c>>)
  ELSE LET v == 10 * x[i] + c IN <<v % Limb>> \o MulAdd(x, i + 1, v \div Limb)

\* The number the first n decimal digit values of ds spell.
RECURSIVE DecLimbs(_, _)
DecLimbs(ds, n) == IF n = 0 THEN <<>> ELSE MulAdd(DecLimbs(ds, n - 1), 1, ds[n])

\* Quotient and remainder by the positive integer d of the limbs of x from the
\* i-th up.
RECURSIVE DivFrom(_, _, _)
DivFrom(x, i, d) ==
  IF i > Len(x) THEN [q |-> <<>>, r |-> 0]
  ELSE LET hi == DivFrom(x, i + 1, d)
           t == Limb * hi.r + x[i]
       IN [q |-> <<t \div d>> \o hi.q, r |-> t % d]

RECURSIVE Pow(_, _)
Pow(a, n) == IF n = 0 THEN 1 ELSE a * Pow(a, n - 1)

\* The bits of the limbs x, high zeros included.
LimbBits(x) ==
  [j \in 1..(10 * Len(x)) |-> (x[(j - 1) \div 10 + 1] \div Pow(2, (j - 1) % 10)) % 2]

\* The significand of a double has 53 bits.
Mantissa == 53

\* The double nearest (ties to even) to x / 10^d for the limbs x, as [m, e]
\* standing for m * 2^e: x is first scaled by 2^s, with s such that the
\* quotient has at least two bits more than a significand, and the quotient
\* is rounded on the bits that go. d is at most 6.
Round(x, d) ==
  LET den == Pow(10, d)
      s == IF Len(x) < 10 THEN 10 - Len(x) ELSE 0
      dm == DivFrom([i \in 1..s |-> 0] \o x, 1, den)
      q == Trim(LimbBits(dm.q))
      t == Len(q) - Mantissa
      kept == SubSeq(q, t + 1, Len(q))
      sticky == dm.r # 0 \/ \E i \in 1..(t - 1) : q[i] = 1
      up == q[t] = 1 /\ (sticky \/ kept[1] = 1)
  IN IF x = <<>> THEN [m |-> <<>>, e |-> 0]
     ELSE [m |-> IF up THEN Inc(kept) ELSE kept, e |-> t - 10 * s]

\* float(text) for the digits whole "." frac: ds are the values of the
\* digits without the point, d = Len(frac).
Float(ds, d) == Round(DecLimbs(ds, Len(ds)), d)

\* The largest binary exponent of a finite double is 1023.
MaxExp == 1023

\* The power of 1024 the unit stands for; P and a bare B have none.
UnitPower(unit) ==
  LET u == IF unit = <<>> THEN "" ELSE Upper(unit[1]) IN
  CASE u = "K" -> 1 [] u = "M" -> 2 [] u = "G" -> 3 [] u = "T" -> 4 [] OTHER -> 0

\* What parse_size returns or raises: kind is "none" (None), "bytes" (the int
\* bits), or the exception raised.
ParseSize(size_str) ==
  IF ~size_str.given \/ size_str.text = <<>> THEN [kind |-> "none", bits |-> <<>>]
  ELSE LET mt == FullMatch(Strip(size_str.text)) IN
       IF ~mt.ok THEN [kind |-> "ArgumentTypeError", bits |-> <<>>]
       ELSE LET num == Float([i \in 1..Len(mt.whole \o mt.frac) |->
                                  DigitVal((mt.whole \o mt.frac)[i])],
                             Len(mt.frac))
                e == num.e + 10 * UnitPower(mt.unit)
            IN IF Len(num.m) + e > MaxExp + 1
               THEN [kind |-> "OverflowError", bits |-> <<>>]
               ELSE [kind |-> "bytes", bits |-> Trim(Shift(num.m, e))]

\* The value of the bits of b from the i-th up, and of b, as numbers of the model.
RECURSIVE BitsFrom(_, _)
BitsFrom(b, i) == IF i > Len(b) THEN 0 ELSE b[i] + 2 * BitsFrom(b, i + 1)

BitsToInt(b) == BitsFrom(b, 1)

\* The model counts bytes with its own numbers: the ceiling main holds, for a
\* result of parse_size (the sizes tried in the runs of jobs are small).
MaxSizeOf(r) == IF r.kind = "none" THEN None ELSE BitsToInt(r.bits)

\* ----------------------------------------------------------- args.max_size
\* args.max_size: absent (the default None) or the text given.
Absent == [given |-> FALSE, text |-> <<>>]

Given(s) == [given |-> TRUE, text |-> s]

\* The decimal text of the number n.
RECURSIVE Decimal(_)
Decimal(n) ==
  IF n < 10 THEN <<Digits[n + 1]>> ELSE Decimal(n \div 10) \o <<Digits[(n % 10) + 1]>>

\* In the runs of one job: no ceiling, and every ceiling up to MaxCeiling.
Ceilings == {Absent} \cup { Given(Decimal(n)) : n \in 0..MaxCeiling }

\* In the runs over several files: none, and one that only the empty stream passes.
ShortCeilings == {Absent, Given(<<"0">>)}

\* The characters the strings tried character by character are made of.
SizeChars == {"0", "1", "5", ".", "K", "m", "G", "T", "P", "B", "X", "-", " "}

\* Strings tried besides: the examples of the documentation, and integers
\* around 2^53, where the doubles are two apart.
SizeSamples ==
  { <<"4", "0", "K">>, <<"2", "M">>, <<"1", "0", "0">>, <<"4", "0", "X">>,
    <<"-", "5", "K">>, <<"a", "b", "c">>, <<"1", ".", "5", "k", "b">>,
    <<"9", "0", "0", "7", "1", "9", "9", "2", "5", "4", "7", "4", "0", "9", "9", "2">>,
    <<"9", "0", "0", "7", "1", "9", "9", "2", "5", "4", "7", "4", "0", "9", "9", "3">> }

\* The values of --max-size parse_size is tried on.
SizeArgs ==
  {Absent} \cup { Given(s) : s \in SizeSamples \cup UNION { [1..n -> SizeChars] : n \in 0..MaxStr } }

\* The values of --max-size a whole invocation is tried with.
MainSizeArgs ==
  { Absent, Given(<<>>), Given(<<"0">>), Given(<<"1", "K">>), Given(<<"4", "0", "X">>),
    Given(<<"-", "5", "K">>) }

\* ------------------------------------------------------------------- state
VARIABLES
  size_str,       \* args.max_size
  input_is_dir,   \* args.input_dir.is_dir()
  flat_output,    \* args.flat_output
  skip_existing,  \* args.skip_existing
  size_out,       \* what parse_size(args.max_size) returned or raised
  max_size,       \* max_size of main: None or a byte count
  files,          \* find_vgz_files(args.input_dir), in iteration order
  src,            \* per input file: what gzip.open and f_in.read have shown of it
  fs,             \* files of the output tree: path -> content
  dirs,           \* directories of the output tree that exist
  run,            \* which invocation of the tool this is (1 or 2)
  idx,            \* position of the for loop of main in files
  pc,             \* "args", "parsed", "checkdir", "exit1", "exit2", "main", "start",
                  \* "open", "stream", "publish", "done", "crashed"
  out_path,       \* out_path of the running job
  total,          \* total of the running job
  pos,            \* chunks the running job has read
  outcome,        \* <<run, idx>> -> how the job ended
  resolved,       \* <<run, idx>> -> the out_path main passed to decompress_vgz
  pre,            \* fs when the running job was taken up by main
  fsPrev,         \* fs when this run began
  unlink_failed,  \* <<run, idx>> of the jobs whose temp_path.unlink() raised on an existing file
  written,        \* paths created, truncated, appended to, replaced or removed in this run
  handle,         \* f_temp of the running job: closed, or open on a file that is at a
                  \* path of the tree, or open on a file that has no name any more
  other,          \* a second invocation on the same output tree, while it is not the one
                  \* taking steps: its files, src, run, idx, pc, out_path, total, pos, pre, handle
  serial          \* whether invocations hold a lock on the output directory from the
                  \* resolution of a destination to the end of the job

vars == << size_str, input_is_dir, flat_output, skip_existing, size_out, max_size, files,
           src, fs, dirs, run, idx, pc, out_path, total, pos, outcome, resolved, pre,
           fsPrev, unlink_failed, written, handle, other, serial >>

\* What the for loop of main never changes.
config == << size_str, input_is_dir, flat_output, skip_existing, size_out, max_size, files,
             serial >>

\* --------------------------------------------------------- the file system
Exists(f, p) == p \in DOMAIN f

WriteFile(f, p, c) == [q \in DOMAIN f \cup {p} |-> IF q = p THEN c ELSE f[q]]

RemoveFile(f, p) == [q \in DOMAIN f \ {p} |-> f[q]]

\* Path.replace / Path.rename: the source takes the destination's place.
ReplaceFile(f, s, d) == WriteFile(RemoveFile(f, s), d, f[s])

\* f_temp: an open file follows its file, not its name. The handle is closed,
\* or open on the file that is now at path `at`, or open on a file that was
\* unlinked or replaced and has no name.
NoPath == Final(<<>>, <<>>)

Closed == [st |-> "closed", at |-> NoPath]

Orphan == [st |-> "orphan", at |-> NoPath]

Linked(p) == [st |-> "linked", at |-> p]

\* What becomes of an open handle h when the file at path p is unlinked.
AfterUnlink(h, p) == IF h = Linked(p) THEN Orphan ELSE h

\* What becomes of an open handle h when the file at s is renamed over d: the
\* file that was at d has no name any more, the file that was at s is at d.
AfterReplace(h, s, d) ==
  IF h = Linked(d) THEN Orphan ELSE IF h = Linked(s) THEN Linked(d) ELSE h

\* The bytes of a file after c was written at offset t: a file shorter than
\* t is filled with zero bytes up to t.
WriteAt(old, t, c) ==
  LET n == IF Len(old) > t + Len(c) THEN Len(old) ELSE t + Len(c) IN
  [i \in 1..n |-> IF i > t /\ i <= t + Len(c) THEN c[i - t]
                  ELSE IF i <= Len(old) THEN old[i] ELSE 0]

\* No second invocation.
NoPeer ==
  [files |-> <<>>, src |-> <<>>, run |-> 0, idx |-> 1, pc |-> "none",
   out_path |-> NoPath, total |-> 0, pos |-> 0, pre |-> <<>>, handle |-> Closed]

\* mkdir(parents=True): the directory and its ancestors.
Ancestors(d) == { SubSeq(d, 1, k) : k \in 0..Len(d) }

\* A decompressor that writes in place, with no temporary file.
TempInPlace(p) == p

\* out_path.with_name(out_path.name + ".part")
TempPath(p) == [p EXCEPT !.part = TRUE]

\* vgz_path.with_suffix(".vgm").name under output_dir
FlatDest(f) == Final(<<>>, f.stem)

\* output_dir / vgz_path.relative_to(input_dir).with_suffix(".vgm")
TreeDest(f) == Final(f.dir, f.stem)

\* ------------------------------------------------- the flattened resolver
RECURSIVE FirstFree(_, _, _)
FirstFree(f, n, i) ==
  IF ~Exists(f, Final(<<>>, Append(n, i)))
  THEN Final(<<>>, Append(n, i))
  ELSE FirstFree(f, n, i + 1)

\* A resolver that never looks at the directory, and one that counts from 2.
AlwaysPlain(f, n) == Final(<<>>, n)

UniqueFromTwo(f, n) ==
  IF ~Exists(f, Final(<<>>, n)) THEN Final(<<>>, n) ELSE FirstFree(f, n, 2)

\* A resolver that takes name-1 without looking whether it is free.
UniqueOrOne(f, n) ==
  IF ~Exists(f, Final(<<>>, n)) THEN Final(<<>>, n) ELSE Final(<<>>, Append(n, 1))

\* _get_unique_flat_path(output_dir, name)
GetUniqueFlatPath(f, n) ==
  IF ~Exists(f, Final(<<>>, n)) THEN Final(<<>>, n) ELSE FirstFree(f, n, 1)

\* -------------------------------------------------------------------- Init
\* The trees and the options of an invocation: input files among F, files at
\* some of the paths P of the output tree.
InitTrees(F, P) ==
  /\ flat_output \in BOOLEAN
  /\ skip_existing \in BOOLEAN
  /\ files \in F
  /\ src = [i \in 1..Len(files) |-> [st |-> "unknown", chunks |-> <<>>]]
  /\ \E Q \in SUBSET P : fs = [p \in Q |-> Old]
  /\ \E extra \in SUBSET {<<>>} :
       dirs = extra \cup UNION { Ancestors(p.dir) : p \in DOMAIN fs }
  /\ run = 1
  /\ idx = 1
  /\ out_path = Final(<<>>, <<"foo">>)
  /\ total = 0
  /\ pos = 0
  /\ outcome = [j \in (1..2) \X (1..Len(files)) |-> "pending"]
  /\ resolved = << >>
  /\ pre = fs
  /\ fsPrev = fs
  /\ unlink_failed = {}
  /\ written = {}
  /\ handle = Closed

\* An invocation with --max-size among C, at the head of the for loop of main:
\* the size was parsed and the input directory is there.
InitOf(F, P, C) ==
  /\ InitTrees(F, P)
  /\ size_str \in C
  /\ input_is_dir = TRUE
  /\ size_out = ParseSize(size_str)
  /\ max_size = MaxSizeOf(size_out)
  /\ pc = "main"
  /\ other = NoPeer
  /\ serial = FALSE

\* An invocation with --max-size among C, when main is entered.
InitAtEntry(F, P, C) ==
  /\ InitTrees(F, P)
  /\ size_str \in C
  /\ input_is_dir \in BOOLEAN
  /\ size_out = [kind |-> "unset", bits |-> <<>>]
  /\ max_size = None
  /\ pc = "args"
  /\ other = NoPeer
  /\ serial = FALSE

\* ---------------------------------------------------- main, before the loop
\* parse_size(args.max_size) returns or raises.
CallParseSize ==
  /\ pc = "args"
  /\ size_out' = ParseSize(size_str)
  /\ pc' = "parsed"
  /\ UNCHANGED << size_str, input_is_dir, flat_output, skip_existing, max_size, files,
                  src, fs, dirs, run, idx, out_path, total, pos, outcome, resolved, pre,
                  fsPrev, unlink_failed, written, handle, other, serial >>

\* except Exception: raise SystemExit(2)
MaxSizeInvalid ==
  /\ pc = "parsed"
  /\ size_out.kind \notin {"none", "bytes"}
  /\ pc' = "exit2"
  /\ UNCHANGED << config, src, fs, dirs, run, idx, out_path, total, pos, outcome,
                  resolved, pre, fsPrev, unlink_failed, written, handle, other >>

\* max_size = parse_size(args.max_size)
MaxSizeOk ==
  /\ pc = "parsed"
  /\ size_out.kind \in {"none", "bytes"}
  /\ max_size' = MaxSizeOf(size_out)
  /\ pc' = "checkdir"
  /\ UNCHANGED << size_str, input_is_dir, flat_output, skip_existing, size_out, files,
                  src, fs, dirs, run, idx, out_path, total, pos, outcome, resolved, pre,
                  fsPrev, unlink_failed, written, handle, other, serial >>

\* if not args.input_dir.is_dir(): raise SystemExit(1)
InputDirMissing ==
  /\ pc = "checkdir"
  /\ ~input_is_dir
  /\ pc' = "exit1"
  /\ UNCHANGED << config, src, fs, dirs, run, idx, out_path, total, pos, outcome,
                  resolved, pre, fsPrev, unlink_failed, written, handle, other >>

\* The input directory is there: the for loop begins.
InputDirOk ==
  /\ pc = "checkdir"
  /\ input_is_dir
  /\ pc' = "main"
  /\ UNCHANGED << config, src, fs, dirs, run, idx, out_path, total, pos, outcome,
                  resolved, pre, fsPrev, unlink_failed, written, handle, other >>

\* The exit status of the process: SystemExit(n) gives n, a return of main 0,
\* an exception no one caught 1; None while it runs.
ExitStatus ==
  CASE pc = "exit2" -> 2
    [] pc = "exit1" -> 1
    [] pc = "crashed" -> 1
    [] pc = "done" -> 0
    [] OTHER -> None

\* ------------------------------------------------------------ job endings
\* decompress_vgz returns (or main continues): the loop moves to the next file.
Finish(o) ==
  /\ outcome' = [outcome EXCEPT ![<<run, idx>>] = o]
  /\ idx' = idx + 1
  /\ pc' = "main"
  /\ total' = 0
  /\ pos' = 0
  /\ handle' = Closed

\* A clean-up that never deletes.
UnlinkNever(f, p, ok) == f

\* A clean-up that deletes out_path instead of temp_path.
UnlinkFinal(f, p, ok) ==
  LET d == [p EXCEPT !.part = FALSE] IN IF ok /\ Exists(f, d) THEN RemoveFile(f, d) ELSE f

\* temp_path.unlink() inside try/except: with ok the file is removed if it is
\* there; otherwise the deletion raises and the exception is swallowed.
Unlink(f, p, ok) == IF ok /\ Exists(f, p) THEN RemoveFile(f, p) ELSE f

\* The clean-up of the running job on the tree f1: the tree it leaves, the
\* records of a deletion that failed and of a file that went, and the open
\* file of another invocation that lost its name.
CleanUp(f1, w) ==
  \E ok \in BOOLEAN :
    LET temp == TempPath(out_path) IN
    /\ fs' = Unlink(f1, temp, ok)
    /\ other' = IF Exists(f1, temp) /\ ~Exists(fs', temp)
                THEN [other EXCEPT !.handle = AfterUnlink(@, temp)]
                ELSE other
    /\ unlink_failed' = IF ~ok /\ Exists(f1, temp)
                        THEN unlink_failed \cup {<<run, idx>>}
                        ELSE unlink_failed
    /\ written' = written \cup w \cup (IF ok /\ Exists(f1, temp) THEN {temp} ELSE {})

\* The except branch of decompress_vgz: best-effort unlink, return False.
\* f1 is the tree when the exception was raised, w the paths touched before it.
ErrorExit(f1, w) ==
  /\ CleanUp(f1, w)
  /\ Finish("error")

\* A run that ignores --skip-existing.
SkipNever(p) == FALSE

\* A check in main that looks at the temporary name.
SkipOnTemp(p) == skip_existing /\ Exists(fs, TempPath(p))

\* if skip_existing and dest_path.exists() in main
SkipAtMain(p) == skip_existing /\ Exists(fs, p)

\* if skip_existing and out_path.exists() in decompress_vgz
SkipAtStart(p) == skip_existing /\ Exists(fs, p)

\* ------------------------------------------------------------------- main
\* Flattened mode, output_dir.mkdir raises: nothing catches it, the run dies.
ResolveMkdirFails ==
  /\ pc = "main" /\ idx <= Len(files)
  /\ flat_output
  /\ <<>> \notin dirs
  /\ pc' = "crashed"
  /\ UNCHANGED << config, src, fs, dirs, run, idx, out_path, total, pos, outcome,
                  resolved, pre, fsPrev, unlink_failed, written, handle, other >>

\* Flattened mode, --skip-existing and the plain name exists: continue.
ResolveFlatSkip ==
  /\ pc = "main" /\ idx <= Len(files)
  /\ flat_output
  /\ SkipAtMain(FlatDest(files[idx]))
  /\ dirs' = dirs \cup {<<>>}
  /\ pre' = fs
  /\ Finish("skipped")
  /\ UNCHANGED << config, src, fs, run, out_path, resolved, fsPrev, unlink_failed, written, other >>

\* Flattened mode: out_path = _get_unique_flat_path(output_dir, dest_name).
ResolveFlat ==
  /\ pc = "main" /\ idx <= Len(files)
  /\ flat_output
  /\ ~SkipAtMain(FlatDest(files[idx]))
  /\ dirs' = dirs \cup {<<>>}
  /\ out_path' = GetUniqueFlatPath(fs, files[idx].stem)
  /\ resolved' = resolved @@ (<<run, idx>> :> out_path')
  /\ pre' = fs
  /\ pc' = "start"
  /\ UNCHANGED << config, src, fs, run, idx, total, pos, outcome, fsPrev, unlink_failed, written,
                  handle, other >>

\* Tree-preserving mode: out_path = output_dir / rel_path.
ResolveTree ==
  /\ pc = "main" /\ idx <= Len(files)
  /\ ~flat_output
  /\ out_path' = TreeDest(files[idx])
  /\ resolved' = resolved @@ (<<run, idx>> :> out_path')
  /\ pre' = fs
  /\ pc' = "start"
  /\ UNCHANGED << config, src, fs, dirs, run, idx, total, pos, outcome, fsPrev, unlink_failed, written,
                  handle, other >>

\* The for loop is exhausted: main returns.
EndRun ==
  /\ pc = "main" /\ idx > Len(files)
  /\ pc' = "done"
  /\ UNCHANGED << config, src, fs, dirs, run, idx, out_path, total, pos, outcome,
                  resolved, pre, fsPrev, unlink_failed, written, handle, other >>

\* The tool is invoked again with the same arguments on the same trees.
SecondRun ==
  /\ pc = "done" /\ run = 1
  /\ run' = 2
  /\ idx' = 1
  /\ pc' = "main"
  /\ fsPrev' = fs
  /\ pre' = fs
  /\ written' = {}
  /\ UNCHANGED << config, src, fs, dirs, out_path, total, pos, outcome, resolved,
                  unlink_failed, handle, other >>

\* --------------------------------------------------------- decompress_vgz
\* The check made only once the temporary file is open.
StartSkipLate ==
  /\ pc = "start"
  /\ SkipAtStart(out_path)
  /\ fs' = WriteFile(fs, TempPath(out_path), <<>>)
  /\ written' = written \cup {TempPath(out_path)}
  /\ Finish("skipped")
  /\ UNCHANGED << config, src, dirs, run, out_path, resolved, pre, fsPrev, unlink_failed, other >>

\* if skip_existing and out_path.exists(): return False
StartSkip ==
  /\ pc = "start"
  /\ SkipAtStart(out_path)
  /\ Finish("skipped")
  /\ UNCHANGED << config, src, fs, dirs, run, out_path, resolved, pre, fsPrev, unlink_failed, written,
                  other >>

\* out_path.parent.mkdir(parents=True, exist_ok=True) succeeds.
StartMkdir ==
  /\ pc = "start"
  /\ ~SkipAtStart(out_path)
  /\ dirs' = dirs \cup Ancestors(out_path.dir)
  /\ pc' = "open"
  /\ UNCHANGED << config, src, fs, run, idx, out_path, total, pos, outcome, resolved,
                  pre, fsPrev, unlink_failed, written, handle, other >>

\* The same mkdir raises at the k-th missing ancestor: it is outside the try
\* block, so the exception leaves decompress_vgz and main.
StartMkdirFails ==
  /\ pc = "start"
  /\ ~SkipAtStart(out_path)
  /\ \E k \in 0..Len(out_path.dir) :
       /\ SubSeq(out_path.dir, 1, k) \notin dirs
       /\ dirs' = dirs \cup { SubSeq(out_path.dir, 1, j) : j \in 0..(k - 1) }
  /\ pc' = "crashed"
  /\ UNCHANGED << config, src, fs, run, idx, out_path, total, pos, outcome, resolved,
                  pre, fsPrev, unlink_failed, written, handle, other >>

\* gzip.open(vgz_path, "rb") raises (unreadable source).
OpenSourceFails ==
  /\ pc = "open"
  /\ src[idx].st \in {"unknown", "noopen"}
  /\ src' = [src EXCEPT ![idx].st = "noopen"]
  /\ ErrorExit(fs, {})
  /\ UNCHANGED << config, dirs, run, out_path, resolved, pre, fsPrev >>

\* The source opens.
Opened(s) == [s EXCEPT !.st = IF @ = "unknown" THEN "open" ELSE @]

\* temp_path.open("wb") raises.
OpenTempFails ==
  /\ pc = "open"
  /\ src[idx].st # "noopen"
  /\ src' = [src EXCEPT ![idx] = Opened(@)]
  /\ ErrorExit(fs, {})
  /\ UNCHANGED << config, dirs, run, out_path, resolved, pre, fsPrev >>

\* The temporary file opened for appending ("ab"): a stale one keeps its bytes.
OpenAppend(f, p) == IF Exists(f, p) THEN f ELSE WriteFile(f, p, <<>>)

\* What temp_path.open("wb") leaves at the path: an empty file.
OpenTruncate(f, p) == WriteFile(f, p, <<>>)

\* Both files open; "wb" creates the temporary file or truncates a stale one.
OpenOk ==
  /\ pc = "open"
  /\ src[idx].st # "noopen"
  /\ src' = [src EXCEPT ![idx] = Opened(@)]
  /\ fs' = OpenTruncate(fs, TempPath(out_path))
  /\ handle' = Linked(TempPath(out_path))
  /\ written' = written \cup {TempPath(out_path)}
  /\ total' = 0
  /\ pos' = 0
  /\ pc' = "stream"
  /\ UNCHANGED << config, dirs, run, idx, out_path, outcome, resolved, pre, fsPrev, unlink_failed,
                  other >>

\* What f_in.read(65536) can do next, with the knowledge of the source it adds:
\* a chunk already seen in an earlier run is read again; past the known part
\* the stream, one of S, gives a new chunk, ends, or turns out corrupt.
ReadResults(S) ==
  LET s == src[idx] IN
  IF pos < Len(s.chunks)
  THEN { [kind |-> "chunk", data |-> s.chunks[pos + 1], s |-> s] }
  ELSE IF s.st = "open"
  THEN { [kind |-> "chunk", data |-> st[pos + 1], s |-> [s EXCEPT !.chunks = Append(@, st[pos + 1])]] :
           st \in { x \in S : IsPrefix(s.chunks, x) /\ Len(x) > pos } }
       \cup { [kind |-> "eof", data |-> <<>>, s |-> [s EXCEPT !.st = "eof"]] :
                st \in { x \in S : x = s.chunks } }
       \cup { [kind |-> "corrupt", data |-> <<>>, s |-> [s EXCEPT !.st = "corrupt"]] }
  ELSE { [kind |-> s.st, data |-> <<>>, s |-> s] }

\* The ceiling tested one byte late, and one byte early.
ExceedsLate(t) == max_size # None /\ t > max_size + 1

ExceedsEarly(t) == max_size # None /\ t >= max_size

\* if max_size is not None and total > max_size
Exceeds(t) == max_size # None /\ t > max_size

\* A write that puts the chunk down twice.
WriteTwice(f, h, t, c) ==
  IF h.st = "linked" THEN WriteFile(f, h.at, WriteAt(f[h.at], t, c \o c)) ELSE f

\* f_temp.write(chunk), f_temp being the handle h at offset t: the bytes go
\* to the file the handle is open on, wherever it is in the tree by now.
WriteChunk(f, h, t, c) ==
  IF h.st = "linked" THEN WriteFile(f, h.at, WriteAt(f[h.at], t, c)) ELSE f

\* One turn of the while loop with a chunk: write it, count it, and discard the
\* job when the count passes the ceiling.
ReadChunk(S) ==
  /\ pc = "stream"
  /\ \E r \in ReadResults(S) :
       /\ r.kind = "chunk"
       /\ src' = [src EXCEPT ![idx] = r.s]
       /\ LET temp == TempPath(out_path)
              f1 == WriteChunk(fs, handle, total, r.data)
              t1 == total + Len(r.data)
          IN IF Exceeds(t1)
             THEN /\ CleanUp(f1, {temp})
                  /\ Finish("size")
             ELSE /\ fs' = f1
                  /\ total' = t1
                  /\ pos' = pos + 1
                  /\ written' = written \cup {temp}
                  /\ UNCHANGED << idx, pc, outcome, unlink_failed, handle, other >>
  /\ UNCHANGED << config, dirs, run, out_path, resolved, pre, fsPrev >>

\* f_temp.write(chunk) raises after k bytes of the chunk reached the file.
WriteFails(S) ==
  /\ pc = "stream"
  /\ \E r \in ReadResults(S) :
       /\ r.kind = "chunk"
       /\ src' = [src EXCEPT ![idx] = r.s]
       /\ \E k \in 0..Len(r.data) :
            ErrorExit(WriteChunk(fs, handle, total, SubSeq(r.data, 1, k)),
                      {TempPath(out_path)})
  /\ UNCHANGED << config, dirs, run, out_path, resolved, pre, fsPrev >>

\* f_in.read raises: the compressed stream is malformed or truncated.
ReadFails(S) ==
  /\ pc = "stream"
  /\ \E r \in ReadResults(S) :
       /\ r.kind = "corrupt"
       /\ src' = [src EXCEPT ![idx] = r.s]
  /\ ErrorExit(fs, {})
  /\ UNCHANGED << config, dirs, run, out_path, resolved, pre, fsPrev >>

\* f_in.read returns b"": break, both files are closed.
ReadEOF(S) ==
  /\ pc = "stream"
  /\ \E r \in ReadResults(S) :
       /\ r.kind = "eof"
       /\ src' = [src EXCEPT ![idx] = r.s]
  /\ pc' = "publish"
  /\ handle' = Closed
  /\ UNCHANGED << config, fs, dirs, run, idx, out_path, total, pos, outcome, resolved,
                  pre, fsPrev, unlink_failed, written, other >>

\* temp_path.replace(out_path), or the rename fallback, succeeds: the
\* temporary file is there to be renamed.
Publish ==
  /\ pc = "publish"
  /\ Exists(fs, TempPath(out_path))
  /\ fs' = ReplaceFile(fs, TempPath(out_path), out_path)
  /\ other' = [other EXCEPT !.handle = AfterReplace(@, TempPath(out_path), out_path)]
  /\ written' = written \cup {TempPath(out_path), out_path}
  /\ Finish("complete")
  /\ UNCHANGED << config, src, dirs, run, out_path, resolved, pre, fsPrev, unlink_failed >>

\* replace and the rename fallback both raise.
PublishFails ==
  /\ pc = "publish"
  /\ ErrorExit(fs, {})
  /\ UNCHANGED << config, src, dirs, run, out_path, resolved, pre, fsPrev >>

\* ------------------------------------------------------- two invocations
\* The processor turns from the invocation that was taking steps to the other
\* one, which goes on where it stood. The code takes no lock: with `serial`
\* the turn is taken only while the invocation holds none, outside the
\* stretch from the resolution of a destination to the end of the job.
Switch ==
  /\ other.pc \notin {"none", "done", "crashed"}
  /\ serial => pc \in {"main", "done", "crashed"}
  /\ files' = other.files
  /\ src' = other.src
  /\ run' = other.run
  /\ idx' = other.idx
  /\ pc' = other.pc
  /\ out_path' = other.out_path
  /\ total' = other.total
  /\ pos' = other.pos
  /\ pre' = other.pre
  /\ handle' = other.handle
  /\ other' = [files |-> files, src |-> src, run |-> run, idx |-> idx, pc |-> pc,
               out_path |-> out_path, total |-> total, pos |-> pos, pre |-> pre,
               handle |-> handle]
  /\ UNCHANGED << size_str, input_is_dir, flat_output, skip_existing, size_out, max_size,
                  fs, dirs, outcome, resolved, fsPrev, unlink_failed, written, serial >>

\* -------------------------------------------------------------------- Next
\* One step of one invocation of the tool over input files that hold streams of S.
Step(S) ==
  \/ ResolveMkdirFails
  \/ ResolveFlatSkip
  \/ ResolveFlat
  \/ ResolveTree
  \/ EndRun
  \/ StartSkip
  \/ StartMkdir
  \/ StartMkdirFails
  \/ OpenSourceFails
  \/ OpenTempFails
  \/ OpenOk
  \/ ReadChunk(S)
  \/ WriteFails(S)
  \/ ReadFails(S)
  \/ ReadEOF(S)
  \/ Publish
  \/ PublishFails

\* One invocation on at most one input file, with every stream of at most
\* MaxLen bytes in every split into chunks.
Init == InitOf(Lists(1), PrePathsJob, Ceilings)
Next == Step(Streams)
Spec == Init /\ [][Next]_vars

\* One invocation over up to MaxJobs input files.
InitRun == InitOf(Lists(MaxJobs), PrePathsRun, ShortCeilings)
NextRun == Step(ShortStreams)
SpecRun == InitRun /\ [][NextRun]_vars

\* Two invocations with --skip-existing and the same arguments, over up to
\* MaxJobsTwice input files.
InitTwice == InitOf(Lists(MaxJobsTwice), PrePathsTwice, ShortCeilings) /\ skip_existing
NextTwice == Step(TwiceStreams) \/ SecondRun
SpecTwice == InitTwice /\ [][NextTwice]_vars

\* One invocation from the entry of main, over up to MaxJobsTwice input files.
InitMain == InitAtEntry(Lists(MaxJobsTwice), PrePathsTwice, MainSizeArgs)
NextMain ==
  \/ CallParseSize
  \/ MaxSizeInvalid
  \/ MaxSizeOk
  \/ InputDirMissing
  \/ InputDirOk
  \/ Step(ShortStreams)
SpecMain == InitMain /\ [][NextMain]_vars

\* Two invocations with the same options on one output tree, each over one
\* input file named foo.vgz of its own input directory, with or without the
\* lock.
ParLists == { <<f>> : f \in { g \in InFiles : g.stem = <<"foo">> } }

\* Streams of one and of two chunks, with different bytes.
ParStreams == { << <<1>> >>, << <<0>>, <<0>> >> }

InitPar ==
  /\ InitTrees(ParLists, PrePathsTwice)
  /\ size_str \in ShortCeilings
  /\ input_is_dir = TRUE
  /\ size_out = ParseSize(size_str)
  /\ max_size = MaxSizeOf(size_out)
  /\ pc = "main"
  /\ serial \in BOOLEAN
  /\ \E l \in ParLists :
       other = [files |-> l, src |-> <<[st |-> "unknown", chunks |-> <<>>]>>, run |-> 2,
                idx |-> 1, pc |-> "main", out_path |-> out_path, total |-> 0, pos |-> 0,
                pre |-> fs, handle |-> Closed]
NextPar == Step(ParStreams) \/ Switch
SpecPar == InitPar /\ [][NextPar]_vars

\* parse_size alone, on every value of SizeArgs.
InitSize == InitAtEntry({<<>>}, {}, SizeArgs) /\ input_is_dir /\ ~flat_output /\ ~skip_existing
NextSize == CallParseSize
SpecSize == InitSize /\ [][NextSize]_vars

\* ================================================================== claims
\* The job main handled last has returned.
Last == <<run, idx - 1>>

Returned == pc \in {"main", "done"} /\ idx > 1

\* The bytes read from input file i so far, in read order.
Payload(i) == Flatten(src[i].chunks)

\* The destination main resolved for job i of this run.
Dest(i) == resolved[<<run, i>>]

\* The bytes read from input file i pass the ceiling.
Oversize(i) == max_size # None /\ Len(Payload(i)) > max_size

\* The job's destination is as it was when main took the job up.
DestAsBefore(d) ==
  /\ Exists(fs, d) <=> Exists(pre, d)
  /\ Exists(fs, d) => fs[d] = pre[d]

\* ---------------------------------------------------------------------- C1
\* C1: in every reachable state, a final (non-.part) path of the output tree
\* holds either what it held when the current job was taken up or the complete
\* payload, within the ceiling, of the job that has just completed on it; so
\* partial and over-ceiling data are only ever in a .part file.
C1_DestinationAtomic ==
  \A p \in DOMAIN fs :
    ~p.part =>
      \/ Exists(pre, p) /\ fs[p] = pre[p]
      \/ /\ Returned
         /\ outcome[Last] = "complete"
         /\ p = Dest(idx - 1)
         /\ src[idx - 1].st = "eof"
         /\ fs[p] = Payload(idx - 1)
         /\ (max_size = None \/ Len(fs[p]) <= max_size)

\* Mid-stream: part of the payload is in the .part file and the destination
\* still holds its earlier content.
C1_Witness ==
  /\ pc = "stream"
  /\ total > 0
  /\ fs[TempPath(out_path)] # <<>>
  /\ Exists(fs, out_path)
  /\ fs[out_path] = Old

\* ---------------------------------------------------------------------- C2
\* C2 as stated, where no deletion failed: once a job whose input passes the
\* ceiling has returned, there is no file at its destination and no .part file
\* for it.
C2_Original ==
  Returned /\ Last \in DOMAIN resolved /\ Oversize(idx - 1) /\ unlink_failed = {} =>
    /\ ~Exists(fs, Dest(idx - 1))
    /\ ~Exists(fs, TempPath(Dest(idx - 1)))

\* C2 amended: a job whose input passes the ceiling never publishes; when it
\* has returned, its destination is absent or holds what it held before the
\* job, and its .part file is gone unless the deletion of it failed.
C2_CeilingEnforced ==
  Returned /\ Last \in DOMAIN resolved /\ Oversize(idx - 1) =>
    /\ outcome[Last] \in {"size", "error"}
    /\ DestAsBefore(Dest(idx - 1))
    /\ Exists(fs, TempPath(Dest(idx - 1))) => Last \in unlink_failed

\* A job discarded at its second chunk, with nothing left behind.
C2_Witness ==
  /\ Returned /\ Last \in DOMAIN resolved /\ Oversize(idx - 1)
  /\ outcome[Last] = "size"
  /\ Len(src[idx - 1].chunks) = 2
  /\ ~Exists(fs, Dest(idx - 1))
  /\ ~Exists(fs, TempPath(Dest(idx - 1)))

FailedPartway ==
  /\ Returned
  /\ outcome[Last] = "error"
  /\ \/ src[idx - 1].st \in {"corrupt", "eof"}
     \/ src[idx - 1].st = "open" /\ src[idx - 1].chunks # <<>>

\* C4 as stated: once a job that failed partway has returned, there is no file
\* at its destination, and its .part file is gone if the deletion did not fail.
C4_Original ==
  FailedPartway =>
    /\ ~Exists(fs, Dest(idx - 1))
    /\ Last \notin unlink_failed => ~Exists(fs, TempPath(Dest(idx - 1)))

\* C4 amended: once a job that failed partway has returned, its destination is
\* as it was before the job (absent, or holding its earlier content), and its
\* .part file is gone if the deletion did not fail.
C4_FailureAtomic ==
  FailedPartway =>
    /\ DestAsBefore(Dest(idx - 1))
    /\ Last \notin unlink_failed => ~Exists(fs, TempPath(Dest(idx - 1)))

\* A stream that failed after its first chunk was written, cleaned up.
C4_Witness ==
  /\ FailedPartway
  /\ src[idx - 1].st = "corrupt"
  /\ Len(src[idx - 1].chunks) >= 1
  /\ ~Exists(fs, Dest(idx - 1))
  /\ ~Exists(fs, TempPath(Dest(idx - 1)))

\* ---------------------------------------------------------------------- C5
\* C5 as stated: no failure inside a job (from the creation of the parent
\* directory of its destination on) ever ends the run; every such failure is
\* caught inside the job, which returns, and main goes on to the next file.
C5_Contained == ~(pc = "crashed" /\ <<run, idx>> \in DOMAIN resolved)

\* ---------------------------------------------------------------------- C6
\* C6: when a job completes, its destination holds exactly the bytes read, the
\* chunks in read order up to the end of the stream, whatever a stale .part
\* file or an earlier destination file held.
C6_RoundTrip ==
  Returned /\ outcome[Last] = "complete" =>
    /\ src[idx - 1].st = "eof"
    /\ Exists(fs, Dest(idx - 1))
    /\ fs[Dest(idx - 1)] = Payload(idx - 1)

\* Two chunks with different bytes published over an old destination file,
\* through a .part path that held a stale file.
C6_Witness ==
  /\ Returned /\ outcome[Last] = "complete"
  /\ Len(src[idx - 1].chunks) = 2
  /\ Payload(idx - 1)[1] # Payload(idx - 1)[2]
  /\ Exists(pre, Dest(idx - 1))
  /\ Exists(pre, TempPath(Dest(idx - 1)))
  /\ fs[Dest(idx - 1)] = Payload(idx - 1)

\* ---------------------------------------------------------------------- C7
\* The destination of input file i before any disambiguation.
PlainDest(i) == IF flat_output THEN FlatDest(files[i]) ELSE TreeDest(files[i])

\* C7 as stated, where no job failed and no deletion failed in either run: the
\* second run with --skip-existing writes nothing under the output directory
\* and leaves the tree as the first run left it.
C7_Original ==
  /\ run = 2
  /\ \A j \in DOMAIN outcome : outcome[j] # "error"
  /\ unlink_failed = {}
  => written = {} /\ fs = fsPrev

\* C7 amended: the second run with --skip-existing never creates, truncates,
\* replaces or removes a final file the first run left: each stays byte for
\* byte the same, and a job whose destination (in flattened mode, its plain
\* name) is there is skipped without touching it or its .part path. A job
\* whose destination is not there is attempted again.
C7_SecondRunKeepsOutputs ==
  run = 2 =>
    /\ \A p \in DOMAIN fsPrev :
         ~p.part => Exists(fs, p) /\ fs[p] = fsPrev[p] /\ p \notin written
    /\ \A i \in 1..Len(files) :
         outcome[<<2, i>>] # "pending" /\ Exists(fsPrev, PlainDest(i)) =>
           /\ outcome[<<2, i>>] = "skipped"
           /\ TempPath(PlainDest(i)) \notin written

\* Two files written by the first run, both skipped by the second, which is
\* over and has written nothing.
C7_Witness ==
  /\ run = 2 /\ pc = "done"
  /\ Len(files) = 2
  /\ \A i \in 1..2 : outcome[<<1, i>>] = "complete" /\ outcome[<<2, i>>] = "skipped"
  /\ written = {}
  /\ fs = fsPrev

\* ---------------------------------------------------------------------- C8
\* Jobs i < j of a flattened run without --skip-existing, on input files that
\* share the basename n, both completed, where the output directory held
\* neither n.vgm nor n-1.vgm before the run.
SameNamePair(i, j) ==
  /\ flat_output /\ ~skip_existing
  /\ i < j
  /\ files[i].stem = files[j].stem
  /\ outcome[<<run, i>>] = "complete" /\ outcome[<<run, j>>] = "complete"
  /\ ~Exists(fsPrev, Final(<<>>, files[i].stem))
  /\ ~Exists(fsPrev, Final(<<>>, Append(files[i].stem, 1)))

\* The first is at n.vgm, the second at n-1.vgm, each with its own payload.
PlainAndOne(i, j) ==
  /\ Dest(i) = Final(<<>>, files[i].stem)
  /\ Dest(j) = Final(<<>>, Append(files[i].stem, 1))
  /\ Exists(fs, Dest(i)) /\ fs[Dest(i)] = Payload(i)
  /\ Exists(fs, Dest(j)) /\ fs[Dest(j)] = Payload(j)

\* C8 as stated: of two such files the first is written as n.vgm and the
\* second as n-1.vgm, and neither overwrites the other.
C8_Original ==
  \A i, j \in 1..Len(files) : SameNamePair(i, j) => PlainAndOne(i, j)

\* C8 amended: the same, when no other input file of the run has the basename
\* n or n-1.
C8_FlatCollision ==
  \A i, j \in 1..Len(files) :
    /\ SameNamePair(i, j)
    /\ \A k \in 1..Len(files) \ {i, j} :
         files[k].stem \notin {files[i].stem, Append(files[i].stem, 1)}
    => PlainAndOne(i, j)

\* foo.vgz and sub/foo.vgz with different payloads, both written.
C8_Witness ==
  /\ Len(files) = 2
  /\ SameNamePair(1, 2)
  /\ files[1].dir # files[2].dir
  /\ Payload(1) # Payload(2)
  /\ PlainAndOne(1, 2)

\* ---------------------------------------------------------------------- C9
\* C9 as stated: in a flattened run no two jobs are resolved to the same
\* destination, however each of them ended.
C9_Original ==
  flat_output =>
    \A i, j \in 1..Len(files) :
      i # j /\ <<run, i>> \in DOMAIN resolved /\ <<run, j>> \in DOMAIN resolved =>
        Dest(i) # Dest(j)

\* C9 amended: in a flattened run no job is resolved to the destination of an
\* earlier job that completed, so no two jobs publish the same filename; the
\* name of a job that was discarded or failed stays free for a later job.
C9_NoDuplicateClaim ==
  flat_output =>
    \A i, j \in 1..Len(files) :
      /\ i < j
      /\ <<run, i>> \in DOMAIN resolved /\ <<run, j>> \in DOMAIN resolved
      /\ outcome[<<run, i>>] = "complete"
      => Dest(i) # Dest(j)

\* Three jobs resolved after the first two completed, two of the same basename.
C9_Witness ==
  /\ flat_output
  /\ Len(files) = 3
  /\ \A i \in 1..3 : <<run, i>> \in DOMAIN resolved
  /\ outcome[<<run, 1>>] = "complete" /\ outcome[<<run, 2>>] = "complete"
  /\ \E i, j \in 1..3 : i < j /\ files[i].stem = files[j].stem

\* --------------------------------------------------------------------- C10
\* C10: in flattened mode with --skip-existing, when main takes up a file
\* whose plain name exists in the output directory, the step it takes is the
\* skip: no destination is resolved, the tree is unchanged, nothing is
\* written, and the loop is at the next file.
C10_SkipBeforeResolve ==
  [][ /\ pc = "main" /\ idx <= Len(files)
      /\ flat_output /\ skip_existing
      /\ Exists(fs, FlatDest(files[idx]))
      => /\ fs' = fs
         /\ resolved' = resolved
         /\ written' = written
         /\ outcome'[<<run, idx>>] = "skipped"
         /\ idx' = idx + 1
         /\ pc' = "main" ]_vars

\* A flattened job skipped by main: it has no resolved destination.
C10_Witness ==
  /\ flat_output /\ skip_existing
  /\ Returned
  /\ outcome[Last] = "skipped"
  /\ Last \notin DOMAIN resolved
  /\ Exists(fs, FlatDest(files[idx - 1]))
  /\ fs = pre

\* --------------------------------------------------------------------- C11
\* The process has ended.
Stopped == pc \in {"exit1", "exit2", "done", "crashed"}

\* No directory is left without a file below it, the output directory aside.
NoNewDir == dirs \subseteq {<<>>} \cup UNION { Ancestors(p.dir) : p \in DOMAIN fs }

\* C11 as stated, where the output directory itself could be created: when the
\* process has ended, its exit status is 2 if --max-size did not parse, else 1
\* if the input directory is not a directory, else 0, whatever became of the
\* jobs; and with status 1 or 2 no job was started and no file or directory
\* was created under the output directory.
C11_ConfigFatal ==
  Stopped /\ ~(pc = "crashed" /\ <<run, idx>> \notin DOMAIN resolved) =>
    /\ ExitStatus = IF size_out.kind \notin {"none", "bytes"} THEN 2
                    ELSE IF ~input_is_dir THEN 1 ELSE 0
    /\ ExitStatus \in {1, 2} =>
         /\ resolved = << >>
         /\ \A j \in DOMAIN outcome : outcome[j] = "pending"
         /\ written = {} /\ fs = fsPrev
         /\ NoNewDir

\* --------------------------------------------------------------------- C12
\* The strings the documentation calls well formed: a decimal number, then
\* optionally one of K, M, G, T in either case, then optionally B, with
\* optional whitespace around the parts.
WellFormed(s) ==
  LET mt == FullMatch(Strip(s)) IN
  /\ mt.ok
  /\ mt.unit # <<>> => Upper(mt.unit[1]) \in {"K", "M", "G", "T", "B"}

\* C12 as stated: parse_size raises the malformed-size error
\* (argparse.ArgumentTypeError) for every non-empty string that is not well
\* formed, and returns a byte count for none of them.
C12_RejectsMalformed ==
  pc = "parsed" /\ size_str.given /\ size_str.text # <<>> /\ ~WellFormed(size_str.text) =>
    size_out.kind = "ArgumentTypeError"

\* --------------------------------------------------------------------- C13
\* s is a non-negative integer followed by nothing or by one of K, M, G, T in
\* either case, then optionally B.
IsIntegerSize(s) ==
  LET mt == FullMatch(s) IN
  /\ mt.ok
  /\ \A i \in 1..Len(s) : s[i] \notin {".", " "}
  /\ mt.unit # <<>> => Upper(mt.unit[1]) \in {"K", "M", "G", "T", "B"}

\* n * 1024^k for the integer and the unit of such a string, as bits.
ExactBytes(s) ==
  LET mt == FullMatch(s)
      ds == [i \in 1..Len(mt.whole) |-> DigitVal(mt.whole[i])]
  IN Trim(LimbBits([i \in 1..UnitPower(mt.unit) |-> 0] \o DecLimbs(ds, Len(ds))))

\* C13 as stated: parse_size returns None for an absent or empty input, the
\* ceiling 0 for "0", and for every non-negative integer n with unit none, K,
\* M, G or T exactly n * 1024^k, k = 0, 1, 2, 3, 4.
C13_ExactValue ==
  pc = "parsed" =>
    /\ ~size_str.given \/ size_str.text = <<>> => size_out.kind = "none"
    /\ size_str.given /\ size_str.text = <<"0">> =>
         size_out.kind = "bytes" /\ size_out.bits = <<>>
    /\ size_str.given /\ IsIntegerSize(size_str.text) =>
         size_out.kind = "bytes" /\ size_out.bits = ExactBytes(size_str.text)

\* --------------------------------------------------------------------- C14
\* Jobs i < j of a flattened run with --skip-existing, on input files that
\* share the basename n, where i completed under the plain name n.vgm and j
\* has been handled.
SecondOfSameName(i, j) ==
  /\ flat_output /\ skip_existing
  /\ i < j
  /\ files[i].stem = files[j].stem
  /\ outcome[<<run, i>>] = "complete"
  /\ Dest(i) = FlatDest(files[i])
  /\ outcome[<<run, j>>] # "pending"

\* C14 as stated: the second file is not skipped: a destination is resolved
\* for it, the disambiguated name n-1.vgm.
C14_Original ==
  \A i, j \in 1..Len(files) :
    SecondOfSameName(i, j) =>
      /\ outcome[<<run, j>>] # "skipped"
      /\ <<run, j>> \in DOMAIN resolved
      /\ Dest(j) = Final(<<>>, Append(files[j].stem, 1))

\* C14 amended: the second file is skipped by main: no destination is
\* resolved for it; and with --skip-existing no flattened job is ever resolved
\* to a disambiguated name, only to its plain name.
C14_SecondSkipped ==
  /\ \A i, j \in 1..Len(files) :
       SecondOfSameName(i, j) =>
         /\ outcome[<<run, j>>] = "skipped"
         /\ <<run, j>> \notin DOMAIN resolved
  /\ flat_output /\ skip_existing =>
       \A k \in 1..Len(files) :
         <<run, k>> \in DOMAIN resolved => Dest(k) = FlatDest(files[k])

\* foo.vgz written as foo.vgm, then sub/foo.vgz skipped, and the run is over
\* with no foo-1.vgm.
C14_Witness ==
  /\ pc = "done"
  /\ Len(files) = 2
  /\ SecondOfSameName(1, 2)
  /\ files[1].dir # files[2].dir
  /\ outcome[<<run, 2>>] = "skipped"
  /\ ~Exists(fs, Final(<<>>, Append(files[2].stem, 1)))

\* --------------------------------------------------------------------- C15
\* What a step of a running job does at its destination path.
DestinationKept ==
  pc \in {"start", "open", "stream", "publish"} =>
    LET d == out_path
        changed == \/ Exists(fs', d) # Exists(fs, d)
                   \/ Exists(fs, d) /\ fs'[d] # fs[d]
        published == /\ pc = "publish"
                     /\ outcome'[<<run, idx>>] = "complete"
                     /\ fs'[d] = fs[TempPath(d)]
        aborted == outcome'[<<run, idx>>] \in {"size", "error"}
    IN /\ changed => published
       /\ aborted /\ Exists(pre, d) => Exists(fs', d) /\ fs'[d] = pre[d]

\* C15: while a job runs, the only step that changes what is at its
\* destination path (a file appearing, going, or changing content) is the
\* replace of a job that completes, which puts the temporary file there; and
\* a step that ends the job as discarded for size or as failed leaves a file
\* that was at the destination before the job there with the same content.
C15_DestinationFrame == [][DestinationKept]_vars

\* A job discarded for size after two chunks, over a destination that still
\* holds the old file.
C15_Witness ==
  /\ Returned /\ Last \in DOMAIN resolved
  /\ outcome[Last] = "size"
  /\ Len(src[idx - 1].chunks) = 2
  /\ Exists(pre, Dest(idx - 1))
  /\ Exists(fs, Dest(idx - 1)) /\ fs[Dest(idx - 1)] = Old

\* --------------------------------------------------------------------- C16
\* C16: the step decompress_vgz takes when skip_existing is set and its
\* destination exists is the skip: no directory is created, the source is not
\* opened, no file (destination or .part) is created, truncated or deleted,
\* and the job is over.
C16_SkipAtStartFrame ==
  [][ pc = "start" /\ skip_existing /\ Exists(fs, out_path) =>
        /\ fs' = fs
        /\ dirs' = dirs
        /\ src' = src
        /\ written' = written
        /\ unlink_failed' = unlink_failed
        /\ outcome'[<<run, idx>>] = "skipped"
        /\ pc' = "main" ]_vars

\* A job skipped inside decompress_vgz, with a stale .part file beside its
\* destination: both files are as they were and the source was never opened.
C16_Witness ==
  /\ Returned /\ Last \in DOMAIN resolved
  /\ outcome[Last] = "skipped"
  /\ src[idx - 1].st = "unknown"
  /\ fs = pre
  /\ fs[Dest(idx - 1)] = Old
  /\ Exists(fs, TempPath(Dest(idx - 1)))
  /\ written = {}

\* --------------------------------------------------------------------- C17
\* The count, the temporary file and the ceiling.
CountIsWritten ==
  /\ pc \in {"stream", "publish"} =>
       /\ Exists(fs, TempPath(out_path))
       /\ Len(fs[TempPath(out_path)]) = total
  /\ Returned /\ outcome[Last] = "size" =>
       LET cs == src[idx - 1].chunks IN
       /\ Len(Payload(idx - 1)) - Len(cs[Len(cs)]) <= max_size
       /\ Len(Payload(idx - 1)) <= max_size + ChunkSize
  /\ max_size # None =>
       \A p \in written :
         p.part /\ Exists(fs, p) => Len(fs[p]) <= max_size + ChunkSize

\* What a step does to the count and to the sources.
CountRises ==
  /\ pc = "stream" /\ pc' = "stream" => total' > total
  /\ pc \notin {"open", "stream"} => src' = src

\* C17: while a job streams, its count is the length of the temporary file,
\* and every step that leaves it streaming raises the count; a job is
\* discarded at the first chunk that takes the count past the ceiling, so it
\* has read at most a chunk more than the ceiling, and the temporary file it
\* wrote never holds more than the ceiling and one chunk; once a job is over
\* its source is read no further.
C17_BoundedOvershoot == []CountIsWritten /\ [][CountRises]_vars

\* A job that read up to the ceiling, then a full chunk more, and was
\* discarded; the deletion failed and the .part file holds ceiling + chunk.
C17_Witness ==
  /\ Returned /\ outcome[Last] = "size"
  /\ max_size > 0
  /\ Len(Payload(idx - 1)) = max_size + ChunkSize
  /\ Last \in unlink_failed
  /\ Len(fs[TempPath(Dest(idx - 1))]) = max_size + ChunkSize

\* --------------------------------------------------------------------- C18
\* C18 as stated: in a flattened run every file that was in the output
\* directory when a job was taken up, left by an earlier job or older, is
\* still there with the same content; and a completed job published to a name
\* that was free when its destination was resolved.
C18_Original ==
  flat_output =>
    /\ \A p \in DOMAIN pre : Exists(fs, p) /\ fs[p] = pre[p]
    /\ Returned /\ outcome[Last] = "complete" => ~Exists(pre, Dest(idx - 1))

\* C18 amended: the same for every file that is not a .part file: a file at
\* the .part path of a job is truncated when the job opens it, and deleted
\* when the job fails or is discarded.
C18_NoSilentOverwrite ==
  flat_output =>
    /\ \A p \in DOMAIN pre : ~p.part => Exists(fs, p) /\ fs[p] = pre[p]
    /\ Returned /\ outcome[Last] = "complete" => ~Exists(pre, Dest(idx - 1))

\* Two files of the same basename written beside an older foo.vgm, which is
\* unchanged: three files, each with its own content.
C18_Witness ==
  /\ flat_output /\ pc = "done"
  /\ Len(files) = 2
  /\ files[1].stem = <<"foo">> /\ files[2].stem = <<"foo">>
  /\ outcome[<<run, 1>>] = "complete" /\ outcome[<<run, 2>>] = "complete"
  /\ Exists(fsPrev, Final(<<>>, <<"foo">>))
  /\ fs[Final(<<>>, <<"foo">>)] = Old
  /\ Dest(1) # Dest(2)
  /\ Payload(1) # Payload(2)
  /\ fs[Dest(1)] = Payload(1) /\ fs[Dest(2)] = Payload(2)

\* --------------------------------------------------------------------- C19
\* C19 as stated, where the output directory itself could be created: when
\* the run has ended, every discovered file has been handled and its job has
\* reached one of the four outcomes.
C19_EveryJobEnds ==
  /\ pc \in {"done", "crashed"}
  /\ ~(pc = "crashed" /\ <<run, idx>> \notin DOMAIN resolved)
  => \A i \in 1..Len(files) :
       outcome[<<run, i>>] \in {"skipped", "complete", "size", "error"}

\* --------------------------------------------------------------------- C20
\* Invocation r of the two, whether it is the one taking steps or not.
Invocation(r) ==
  IF run = r THEN [src |-> src, pc |-> pc, handle |-> handle]
  ELSE [src |-> other.src, pc |-> other.pc, handle |-> other.handle]

ParPayload(r) == Flatten(Invocation(r).src[1].chunks)

\* The job of invocation r is between the resolution of its destination and
\* its end.
InFlight(r) == Invocation(r).pc \in {"start", "open", "stream", "publish"}

\* With the lock, in flattened mode: one job at most is in flight, every job
\* that completed has its own bytes at its destination, and two jobs that
\* completed have different destinations.
SerialKeepsOutputs ==
  flat_output /\ serial =>
    /\ ~(InFlight(1) /\ InFlight(2))
    /\ \A r \in 1..2 :
         outcome[<<r, 1>>] = "complete" =>
           /\ Exists(fs, resolved[<<r, 1>>])
           /\ fs[resolved[<<r, 1>>]] = ParPayload(r)
    /\ outcome[<<1, 1>>] = "complete" /\ outcome[<<2, 1>>] = "complete" =>
         resolved[<<1, 1>>] # resolved[<<2, 1>>]

\* With the lock, in flattened mode: a step that resolves a destination never
\* gives a job the destination of a job that completed or is in flight.
SerialClaimsFree ==
  flat_output /\ serial =>
    \A k \in DOMAIN resolved' \ DOMAIN resolved :
      \A j \in DOMAIN resolved :
        outcome[j] = "complete" \/ InFlight(j[1]) => resolved'[k] # resolved[j]

\* C20: the code takes no lock, and two invocations on one output directory
\* whose jobs share a basename can be resolved to the same destination and
\* the same .part file, so that a published file holds bytes that are not
\* its job's (the witness); when each invocation holds a lock on the output
\* directory from the resolution to the end of its job, no job is given the
\* destination of a job that completed or is in flight, and every completed
\* job has its own bytes at a destination of its own.
C20_SerialisedClaims == []SerialKeepsOutputs /\ [][SerialClaimsFree]_vars

\* Without the lock: both jobs found foo.vgm unused and were resolved to it,
\* both read their source to its end and wrote into the same foo.vgm.part
\* with no write and no deletion failing, one of them published it and was
\* reported complete, and foo.vgm holds the bytes of neither source.
C20_Witness ==
  /\ flat_output /\ ~serial
  /\ \A r \in 1..2 : Invocation(r).src[1].st = "eof"
  /\ unlink_failed = {}
  /\ ~Exists(fsPrev, Final(<<>>, <<"foo">>))
  /\ DOMAIN resolved = {<<1, 1>>, <<2, 1>>}
  /\ resolved[<<1, 1>>] = Final(<<>>, <<"foo">>)
  /\ resolved[<<2, 1>>] = Final(<<>>, <<"foo">>)
  /\ ~InFlight(1) /\ ~InFlight(2)
  /\ \E r \in 1..2 : outcome[<<r, 1>>] = "complete"
  /\ Exists(fs, Final(<<>>, <<"foo">>))
  /\ fs[Final(<<>>, <<"foo">>)] \notin {ParPayload(1), ParPayload(2)}

====
